---- MODULE Spec2Model ----
(***************************************************************************)
(* File Copier: the event handler (in-flight set, stability check, chunked *)
(* copy with progress bar) and the session controller (FileMonitor: menu,  *)
(* change of source folder, start/stop of the watch).                      *)
(*                                                                         *)
(* Every statement that reads or writes shared state is one step of the    *)
(* thread that executes it; nothing in the source holds a lock.            *)
(***************************************************************************)
EXTENDS Integers, Sequences, FiniteSets, TLC

(***************************************************************************)
(* Bounds and program constants                                            *)
(***************************************************************************)
\* copy_with_progress(src, dst, chunk_size=8192)
chunk_size == 8192
\* ProgressBar(total_size, width=50)
width == 50
\* largest source file, in whole chunks (plus one odd byte)
MaxChunks == 1
\* time.sleep(1) in _copy_file, in clock ticks of a quarter of a second
GraceTicks == 4
\* time.sleep(0.5) in _copy_file, in ticks
CheckTicks == 2
\* the two bursts the stability property speaks of: 2 seconds apart
ClaimGap == 2 * GraceTicks
MaxGap == ClaimGap + 1
MaxTime == MaxGap + GraceTicks + CheckTicks + 1

\* threads that deliver notifications to the one FileHandler
HThreads == {"w1", "w2"}
\* files of the bound source directory: source_dir / name
APng == <<"source_dir", "a.png">>
BPng == <<"source_dir", "b.png">>
Paths == {APng, BPng}
\* the file the timed two-burst scenario writes
BurstPath == APng
NoPath == <<"-">>
\* the events a watch reports for a path: event_type and is_directory
Kinds == {"created", "modified"}
Events == [kind : Kinds, is_directory : BOOLEAN]
ModifiedFile == [kind |-> "modified", is_directory |-> FALSE]
NoEvent == [kind |-> "none", is_directory |-> FALSE]
Absent == 0 - 1
\* the destination path: its parent is missing, the directory alone is missing, it exists
DirStates == {"no_parent", "no_dir", "dir"}

\* threads of the controller: run() on the main thread, the key hook's callbacks
KeyThreads == {"k1", "k2"}
CThreads == {"main"} \cup KeyThreads
\* Observer objects one run may construct
MaxObservers == 3
Obs == 1..MaxObservers
\* self.observer = None
NoObserver == 0
\* self.current_source_dir = None
NoDir == <<"None">>
\* the process has not exited
NoExit == 0 - 1

\* lines the operator may type at the folder prompt
Typed == { <<"0", "1", "-", "0", "4">>, <<"0", "2", "-", "0", "5">>,
           <<" ", "0", "1", "-", "0", "4", " ">>,
           <<"1", "-", "0", "4">>, <<"0", "1", "-", "4">>, <<"a", "b", "-", "0", "4">>,
           <<"0", "1", "_", "0", "4">>, <<>> }
Digits == {"0", "1", "2", "3", "4", "5", "6", "7", "8", "9"}
Whitespace == {" "}
\* answers the operator may give to the menu
Choices == {<<"1">>, <<"2">>, <<"3">>, <<" ", "2">>, <<>>}
\* no answer has been read
NoChoice == <<"None">>

SizeSet == {0, 1} \cup UNION {{k * chunk_size, k * chunk_size + 1} : k \in 1..MaxChunks}

Min(a, b) == IF a < b THEN a ELSE b
Max(a, b) == IF a < b THEN b ELSE a

VARIABLES
    \* ---- FileHandler and the file system
    processing_files,   \* FileHandler.processing_files
    hpc,                \* per delivering thread: the statement it is at
    hpath,              \* per thread: source_path of the notification
    event,              \* per thread: the event object of the notification
    initial_size,       \* per thread: _copy_file's initial_size
    total_size,         \* per thread: copy_with_progress' total_size (ProgressBar.total_size)
    copied_size,        \* per thread: copy_with_progress' copied_size
    chunk,              \* per thread: len(chunk) of the last read
    percentage,         \* per thread: ProgressBar.update's last percentage
    hlog,               \* per thread: outcome records of its current/last invocation
    escaped,            \* per thread: exception that left its last callback
    pending,            \* per thread: exception in flight through the finally clause
    srcSize,            \* per path: size of the source file
    dstSize,            \* per destination path: size of the file (Absent: no file)
    dstMeta,            \* per destination path: metadata propagated (shutil.copystat done)
    dstDir,             \* destination directory: how much of its path exists
    dstCreated,         \* mkdir has created directories of the destination path
    replaced,           \* per thread: size of the file its open(dst, 'wb') truncated (Absent: none)
    notified,           \* paths with a notification raised and not yet handed to the handler
    \* ---- the environment of one run
    workers,            \* threads on which notifications arrive
    produced,           \* sizes the producer's files go through
    listeners,          \* threads on which the key hook's callbacks run
    obsCap,             \* Observer objects this run may construct
    kinds,              \* events the watch delivers in this run
    typedLines,         \* lines the operator types at the folder prompt in this run
    legacy,             \* the program run is the one-file file_copier.py (TRUE) or main.py (FALSE)
    \* ---- clock of the timed scenario
    timed,              \* sleeps take their nominal time (TRUE) or any time (FALSE)
    now,                \* clock, in ticks
    wake,               \* per thread: end of its current sleep
    bursts,             \* times of the writer's bursts
    nextBurst,          \* index of the next burst to happen
    hburst,             \* per thread: the burst whose notification it handles
    \* ---- FileMonitor, its threads and its observers
    observer,           \* FileMonitor.observer (NoObserver: None)
    current_source_dir, \* FileMonitor.current_source_dir (NoDir: None)
    running,            \* FileMonitor.running
    menu_active,        \* FileMonitor.menu_active
    pc,                 \* per controller thread: the statement it is at
    folder_name,        \* per controller thread: the local folder_name
    choice,             \* per key thread: show_menu's local choice
    raised,             \* per controller thread: exception that left its top call
    nextObs,            \* number of Observer() objects constructed so far, plus one
    obsState,           \* per Observer: unborn, created, running (thread alive), dead
    stopReq,            \* per Observer: the threads that have called stop() on it
    obsWatch,           \* per Observer: directories scheduled on it
    inCb,               \* per Observer: a handler callback is executing
    dirExists,          \* per directory under base_source_dir: it exists
    run_exc,            \* the exception run()'s try body ended with
    exit_code           \* exit status of the process (NoExit: still running)

hvars == <<processing_files, hpc, hpath, event, initial_size, total_size, copied_size, chunk,
           percentage, hlog, escaped, pending, srcSize, dstSize, dstMeta, dstDir, dstCreated>>
tvars == <<timed, now, wake, bursts, nextBurst, hburst>>
evars == <<workers, produced, listeners, obsCap, kinds, typedLines, legacy>>
xvars == <<run_exc, exit_code>>
mvars == <<observer, current_source_dir, running, menu_active, pc, folder_name, choice, raised,
           nextObs, obsState, stopReq, obsWatch, inCb, dirExists, xvars>>
vars == <<hvars, tvars, evars, mvars, notified, replaced>>

(***************************************************************************)
(* FileHandler                                                             *)
(***************************************************************************)
\* statements of copy_with_progress and what follows a stable verdict
CopyPcs == {"getsize", "open", "read", "write", "update", "copystat", "logok"}
\* statements between the insert into processing_files and its removal
InFlightPcs == {"sleep1", "mkdir", "stat1", "sleep2", "stat2", "except", "release"} \cup CopyPcs
\* statements that take no time of their own in the timed scenario
UrgentPcs == {"dispatch", "check", "add", "mkdir", "stat1", "stat2"}

\* file_name = source_path.name: the last component of the path
PathName(p) == p[Len(p)]

\* destination_path = self.destination_dir / file_name
destination_path(p) == <<"destination_dir", PathName(p)>>

\* the files copies are written to
Destinations == {destination_path(p) : p \in Paths}

ErrorRecord(p, cause) == [kind |-> "error", file |-> PathName(p), cause |-> cause]
SuccessRecord(p) ==
    [kind |-> "success", file |-> PathName(p), src |-> p, dst |-> destination_path(p)]

\* (variant: mkdir and the first stat before the try)
CaughtLate(step) == step \in {"sleep2", "stat2", "getsize", "open", "read", "write",
                              "update", "copystat", "logok"}

\* (variant: the try block ends before the copy)
CaughtBeforeCopy(step) == step \in {"sleep1", "mkdir", "stat1", "sleep2", "stat2"}

\* the statements _copy_file's try/except Exception encloses: all of them
Caught(step) == step \in {"sleep1", "mkdir", "stat1", "sleep2", "stat2"} \cup CopyPcs

\* (variant: the comparison inverted)
StableInverted(first, second) == first # second

\* initial_size != source_path.stat().st_size  (negated: the stable verdict)
Stable(first, second) == first = second

\* time.sleep(d) has returned
SleepDone(t) == ~timed \/ now >= wake[t]
SleepUntil(t, d) == IF timed THEN [wake EXCEPT ![t] = now + d] ELSE wake

\* an exception raised at `step` of thread t is in flight: to the except clause
\* when the step is inside the try, else straight to the finally clause
Raise(t, step, cause) ==
    /\ pending' = [pending EXCEPT ![t] = cause]
    /\ hpc' = [hpc EXCEPT ![t] = IF Caught(step) THEN "except" ELSE "release"]

\* the effect of a notification e for p arriving on thread t: the observer
\* calls the handler's dispatch with the event object
DeliverTo(t, e, p) ==
    /\ t \in workers
    /\ e \in kinds
    /\ hpc[t] = "idle"
    /\ hpc' = [hpc EXCEPT ![t] = "dispatch"]
    /\ hpath' = [hpath EXCEPT ![t] = p]
    /\ event' = [event EXCEPT ![t] = e]
    /\ hlog' = [hlog EXCEPT ![t] = <<>>]
    /\ escaped' = [escaped EXCEPT ![t] = "none"]
    /\ pending' = [pending EXCEPT ![t] = "none"]

\* a created or modified notification, for a file or a directory, at any moment
Deliver(t, e, p) ==
    /\ ~timed
    /\ DeliverTo(t, e, p)
    /\ UNCHANGED <<processing_files, initial_size, total_size, copied_size, chunk,
                   percentage, srcSize, dstSize, dstMeta, dstDir, dstCreated, tvars, evars, mvars, notified, replaced>>

\* FileHandler defines on_modified alone: a created event reaches the method
\* inherited from FileSystemEventHandler, which does nothing
on_created(e) == FALSE

\* on_modified: if not event.is_directory: self._handle_file_event(...)
on_modified(e) == ~e.is_directory

\* the event is handed to the method of its event_type
Handles(e) ==
    CASE e.kind = "created" -> on_created(e)
      [] e.kind = "modified" -> on_modified(e)
      [] OTHER -> FALSE

\* dispatch(event): _handle_file_event is entered, or the callback returns
Dispatch(t) ==
    /\ hpc[t] = "dispatch"
    /\ hpc' = [hpc EXCEPT ![t] = IF Handles(event[t]) THEN "check" ELSE "idle"]
    /\ UNCHANGED <<processing_files, hpath, event, initial_size, total_size, copied_size, chunk,
                   percentage, hlog, escaped, pending, srcSize, dstSize, dstMeta, dstDir, dstCreated, tvars, evars, mvars, notified, replaced>>

\* if source_path in self.processing_files: return
HCheck(t) ==
    /\ hpc[t] = "check"
    /\ hpc' = [hpc EXCEPT ![t] = IF hpath[t] \in processing_files THEN "idle" ELSE "add"]
    /\ UNCHANGED <<processing_files, hpath, event, initial_size, total_size, copied_size, chunk,
                   percentage, hlog, escaped, pending, srcSize, dstSize, dstMeta, dstDir, dstCreated, tvars, evars, mvars, notified, replaced>>

\* self.processing_files.add(source_path); _copy_file is entered
HAdd(t) ==
    /\ hpc[t] = "add"
    /\ processing_files' = processing_files \cup {hpath[t]}
    /\ hpc' = [hpc EXCEPT ![t] = "sleep1"]
    /\ wake' = SleepUntil(t, GraceTicks)
    /\ UNCHANGED <<hpath, event, initial_size, total_size, copied_size, chunk, percentage, hlog,
                   escaped, pending, srcSize, dstSize, dstMeta, dstDir, dstCreated, timed, now, bursts,
                   nextBurst, hburst, evars, mvars, notified, replaced>>

\* time.sleep(1)
HSleep1(t) ==
    /\ hpc[t] = "sleep1"
    /\ SleepDone(t)
    /\ hpc' = [hpc EXCEPT ![t] = "mkdir"]
    /\ UNCHANGED <<processing_files, hpath, event, initial_size, total_size, copied_size, chunk,
                   percentage, hlog, escaped, pending, srcSize, dstSize, dstMeta, dstDir, dstCreated, tvars, evars, mvars, notified, replaced>>

\* Path.mkdir(parents, exist_ok): FileExistsError on an existing directory
\* unless exist_ok, FileNotFoundError on a missing parent unless parents
PathMkdirRaises(tree, parents, exist_ok) ==
    \/ tree = "dir" /\ ~exist_ok
    \/ tree = "no_parent" /\ ~parents

\* (variant: mkdir())
MkdirRaisesStrict(tree) == PathMkdirRaises(tree, FALSE, FALSE)

\* self.destination_dir.mkdir(parents=True, exist_ok=True)
MkdirRaises(tree) == PathMkdirRaises(tree, TRUE, TRUE)

\* self.destination_dir.mkdir(parents=True, exist_ok=True); creating a
\* directory may fail on the volume (ok = FALSE)
HMkdir(t) ==
    /\ hpc[t] = "mkdir"
    /\ \E ok \in BOOLEAN :
         IF ~MkdirRaises(dstDir) /\ (ok \/ dstDir = "dir")
         THEN /\ dstDir' = "dir"
              /\ dstCreated' = (dstCreated \/ dstDir # "dir")
              /\ hpc' = [hpc EXCEPT ![t] = "stat1"]
              /\ pending' = pending
         ELSE /\ UNCHANGED <<dstDir, dstCreated>>
              /\ Raise(t, "mkdir", "OSError")
    /\ UNCHANGED <<hlog, processing_files, hpath, event, initial_size, total_size, copied_size, chunk,
                   percentage, escaped, srcSize, dstSize, dstMeta, tvars, evars, mvars, notified, replaced>>

\* initial_size = source_path.stat().st_size
HStat1(t) ==
    /\ hpc[t] = "stat1"
    /\ \E ok \in BOOLEAN :
         IF ok
         THEN /\ initial_size' = [initial_size EXCEPT ![t] = srcSize[hpath[t]]]
              /\ hpc' = [hpc EXCEPT ![t] = "sleep2"]
              /\ wake' = SleepUntil(t, CheckTicks)
              /\ pending' = pending
         ELSE /\ initial_size' = initial_size
              /\ wake' = wake
              /\ Raise(t, "stat1", "OSError")
    /\ UNCHANGED <<hlog, processing_files, hpath, event, total_size, copied_size, chunk, percentage,
                   escaped, srcSize, dstSize, dstMeta, dstDir, dstCreated, timed, now, bursts, nextBurst, hburst, evars, mvars, notified, replaced>>

\* time.sleep(0.5)
HSleep2(t) ==
    /\ hpc[t] = "sleep2"
    /\ SleepDone(t)
    /\ hpc' = [hpc EXCEPT ![t] = "stat2"]
    /\ UNCHANGED <<processing_files, hpath, event, initial_size, total_size, copied_size, chunk,
                   percentage, hlog, escaped, pending, srcSize, dstSize, dstMeta, dstDir, dstCreated, tvars, evars, mvars, notified, replaced>>

\* if initial_size != source_path.stat().st_size: return
HStat2(t) ==
    /\ hpc[t] = "stat2"
    /\ \E ok \in BOOLEAN :
         IF ok
         THEN /\ hpc' = [hpc EXCEPT ![t] =
                    IF Stable(initial_size[t], srcSize[hpath[t]]) THEN "getsize" ELSE "release"]
              /\ pending' = pending
         ELSE Raise(t, "stat2", "OSError")
    /\ UNCHANGED <<hlog, processing_files, hpath, event, initial_size, total_size, copied_size, chunk,
                   percentage, escaped, srcSize, dstSize, dstMeta, dstDir, dstCreated, tvars, evars, mvars, notified, replaced>>

(***************************************************************************)
(* copy_with_progress and ProgressBar                                      *)
(***************************************************************************)
\* total_size = os.path.getsize(src); progress = ProgressBar(total_size); copied_size = 0
CGetsize(t) ==
    /\ hpc[t] = "getsize"
    /\ \E ok \in BOOLEAN :
         IF ok
         THEN /\ total_size' = [total_size EXCEPT ![t] = srcSize[hpath[t]]]
              /\ copied_size' = [copied_size EXCEPT ![t] = 0]
              /\ percentage' = [percentage EXCEPT ![t] = 0]
              /\ hpc' = [hpc EXCEPT ![t] = "open"]
              /\ pending' = pending
         ELSE /\ UNCHANGED <<total_size, copied_size, percentage>>
              /\ Raise(t, "getsize", "OSError")
    /\ UNCHANGED <<hlog, processing_files, hpath, event, initial_size, chunk, escaped, srcSize, dstSize,
                   dstMeta, dstDir, dstCreated, tvars, evars, mvars, notified, replaced>>

\* open(path, mode) for writing: 'xb' raises FileExistsError on an existing
\* file, 'wb' truncates it
OpenModeRaises(exists, mode) == mode = "xb" /\ exists

\* (variant: open(dst, 'xb'))
OpenExclusiveRaises(exists) == OpenModeRaises(exists, "xb")

\* open(dst, 'wb')
OpenRaises(exists) == OpenModeRaises(exists, "wb")

\* with open(src, 'rb') as fsrc, open(dst, 'wb') as fdst: the destination is
\* created, or truncated when it exists; opening may fail on the volume
COpen(t) ==
    /\ hpc[t] = "open"
    /\ LET exists == dstSize[destination_path(hpath[t])] # Absent IN
       \E ok \in BOOLEAN :
         IF OpenRaises(exists)
         THEN /\ UNCHANGED <<dstSize, dstMeta, replaced>>
              /\ Raise(t, "open", "FileExistsError")
         ELSE IF ok
         THEN /\ dstSize' = [dstSize EXCEPT ![destination_path(hpath[t])] = 0]
              /\ dstMeta' = [dstMeta EXCEPT ![destination_path(hpath[t])] = FALSE]
              /\ replaced' = [replaced EXCEPT ![t] = dstSize[destination_path(hpath[t])]]
              /\ hpc' = [hpc EXCEPT ![t] = "read"]
              /\ pending' = pending
         ELSE /\ UNCHANGED <<dstSize, dstMeta, replaced>>
              /\ Raise(t, "open", "OSError")
    /\ UNCHANGED <<hlog, processing_files, hpath, event, initial_size, total_size, copied_size, chunk,
                   percentage, escaped, srcSize, dstDir, dstCreated, tvars, evars, mvars, notified>>

\* (variant: fsrc.read() of all that is left)
ReadAll(size, pos, n) == size - pos

\* fsrc.read(n) at position pos of a file of `size` bytes: n bytes, fewer at
\* the end of the file
FileRead(size, pos, n) == Min(n, size - pos)

\* chunk = fsrc.read(chunk_size); if not chunk: break
CRead(t) ==
    /\ hpc[t] = "read"
    /\ \E ok \in BOOLEAN :
         IF ok
         THEN LET n == FileRead(srcSize[hpath[t]], copied_size[t], chunk_size) IN
              /\ chunk' = [chunk EXCEPT ![t] = n]
              /\ hpc' = [hpc EXCEPT ![t] = IF n = 0 THEN "copystat" ELSE "write"]
              /\ pending' = pending
         ELSE /\ chunk' = chunk
              /\ Raise(t, "read", "OSError")
    /\ UNCHANGED <<hlog, processing_files, hpath, event, initial_size, total_size, copied_size, percentage,
                   escaped, srcSize, dstSize, dstMeta, dstDir, dstCreated, tvars, evars, mvars, notified, replaced>>

\* fdst.write(chunk); copied_size += len(chunk)
CWrite(t) ==
    /\ hpc[t] = "write"
    /\ \E ok \in BOOLEAN :
         IF ok
         THEN /\ dstSize' = [dstSize EXCEPT ![destination_path(hpath[t])] = Max(@, copied_size[t] + chunk[t])]
              /\ copied_size' = [copied_size EXCEPT ![t] = @ + chunk[t]]
              /\ hpc' = [hpc EXCEPT ![t] = "update"]
              /\ pending' = pending
         ELSE /\ UNCHANGED <<dstSize, copied_size>>
              /\ Raise(t, "write", "OSError")
    /\ UNCHANGED <<hlog, processing_files, hpath, event, initial_size, total_size, chunk, percentage,
                   escaped, srcSize, dstMeta, dstDir, dstCreated, tvars, evars, mvars, notified, replaced>>

\* ProgressBar.update: the division current_size / self.total_size is defined
UpdateDefined(total) == total # 0

\* percentage = min(100, int((current_size / self.total_size) * 100))
Percentage(current, total) == Min(100, (current * 100) \div total)

\* filled_width = int(self.width * current_size / self.total_size)
FilledWidth(current, total) == (width * current) \div total

\* progress.update(copied_size)
CUpdate(t) ==
    /\ hpc[t] = "update"
    /\ IF UpdateDefined(total_size[t])
       THEN /\ percentage' = [percentage EXCEPT ![t] = Percentage(copied_size[t], total_size[t])]
            /\ hpc' = [hpc EXCEPT ![t] = "read"]
            /\ pending' = pending
       ELSE /\ percentage' = percentage
            /\ Raise(t, "update", "ZeroDivisionError")
    /\ UNCHANGED <<hlog, processing_files, hpath, event, initial_size, total_size, copied_size, chunk,
                   escaped, srcSize, dstSize, dstMeta, dstDir, dstCreated, tvars, evars, mvars, notified, replaced>>

\* shutil.copystat(src, dst)
CCopystat(t) ==
    /\ hpc[t] = "copystat"
    /\ \E ok \in BOOLEAN :
         IF ok
         THEN /\ dstMeta' = [dstMeta EXCEPT ![destination_path(hpath[t])] = TRUE]
              /\ hpc' = [hpc EXCEPT ![t] = "logok"]
              /\ pending' = pending
         ELSE /\ dstMeta' = dstMeta
              /\ Raise(t, "copystat", "OSError")
    /\ UNCHANGED <<hlog, processing_files, hpath, event, initial_size, total_size, copied_size, chunk,
                   percentage, escaped, srcSize, dstSize, dstDir, dstCreated, tvars, evars, mvars, notified, replaced>>

\* except Exception as e: self._log_error(...); logging.error(...)
HExcept(t) ==
    /\ hpc[t] = "except"
    /\ hlog' = [hlog EXCEPT ![t] = Append(@, ErrorRecord(hpath[t], pending[t]))]
    /\ pending' = [pending EXCEPT ![t] = "none"]
    /\ hpc' = [hpc EXCEPT ![t] = "release"]
    /\ UNCHANGED <<processing_files, hpath, event, initial_size, total_size, copied_size, chunk,
                   percentage, escaped, srcSize, dstSize, dstMeta, dstDir, dstCreated, tvars, evars, mvars, notified, replaced>>

\* self._log_success(...); logging.info(...)
HLogSuccess(t) ==
    /\ hpc[t] = "logok"
    /\ hlog' = [hlog EXCEPT ![t] = Append(@, SuccessRecord(hpath[t]))]
    /\ hpc' = [hpc EXCEPT ![t] = "release"]
    /\ UNCHANGED <<processing_files, hpath, event, initial_size, total_size, copied_size, chunk,
                   percentage, escaped, pending, srcSize, dstSize, dstMeta, dstDir, dstCreated, tvars, evars, mvars, notified, replaced>>

\* the locals of _copy_file and copy_with_progress end with the call
Forget(t) ==
    /\ initial_size' = [initial_size EXCEPT ![t] = 0]
    /\ total_size' = [total_size EXCEPT ![t] = 0]
    /\ copied_size' = [copied_size EXCEPT ![t] = 0]
    /\ chunk' = [chunk EXCEPT ![t] = 0]
    /\ percentage' = [percentage EXCEPT ![t] = 0]
    /\ replaced' = [replaced EXCEPT ![t] = Absent]

\* self.processing_files.remove(source_path): KeyError when the path is absent
RemoveRaises(p, set) == p \notin set

\* (variant: the marker is not released)
RemovedNever(p, set) == set

\* self.processing_files.remove(source_path): the set afterwards
Removed(p, set) == set \ {p}

\* finally: self.processing_files.remove(source_path)
HRelease(t) ==
    /\ hpc[t] = "release"
    /\ processing_files' = Removed(hpath[t], processing_files)
    /\ escaped' = [escaped EXCEPT ![t] =
            IF RemoveRaises(hpath[t], processing_files) THEN "KeyError" ELSE pending[t]]
    /\ pending' = [pending EXCEPT ![t] = "none"]
    /\ hpc' = [hpc EXCEPT ![t] = "idle"]
    /\ Forget(t)
    /\ UNCHANGED <<hpath, event, hlog, srcSize, dstSize, dstMeta, dstDir, dstCreated, tvars, evars, mvars, notified>>

(***************************************************************************)
(* The producer of the source files, and the clock                         *)
(***************************************************************************)
GrowTo(p, s) == srcSize' = [srcSize EXCEPT ![p] = s]

\* the producer appends to a source file at a time of its choice
Write(p) ==
    /\ ~timed
    /\ \E s \in produced : s > srcSize[p] /\ GrowTo(p, s)
    /\ UNCHANGED <<processing_files, hpc, hpath, event, initial_size, total_size, copied_size, chunk,
                   percentage, hlog, escaped, pending, dstSize, dstMeta, dstDir, dstCreated, tvars, evars, mvars, notified, replaced>>

\* the producer appends to a file of the watched directory: the watch raises a
\* modified notification for the path (one that is still waiting stands for both)
Modify(p) ==
    /\ ~timed
    /\ \E s \in produced : s > srcSize[p] /\ GrowTo(p, s)
    /\ notified' = notified \cup {p}
    /\ UNCHANGED <<processing_files, hpc, hpath, event, initial_size, total_size, copied_size, chunk,
                   percentage, hlog, escaped, pending, dstSize, dstMeta, dstDir, dstCreated, tvars, evars, mvars, replaced>>

\* a waiting notification for p is handed to the handler on thread t
Notify(t, p) ==
    /\ ~timed
    /\ p \in notified
    /\ notified' = notified \ {p}
    /\ DeliverTo(t, ModifiedFile, p)
    /\ UNCHANGED <<processing_files, initial_size, total_size, copied_size, chunk,
                   percentage, srcSize, dstSize, dstMeta, dstDir, dstCreated, tvars, evars, mvars, replaced>>

BurstDue == nextBurst <= Len(bursts) /\ bursts[nextBurst] = now

\* a burst of the timed scenario: the file grows and the notification is delivered
Burst(t) ==
    /\ timed
    /\ BurstDue
    /\ \E s \in produced : s > srcSize[BurstPath] /\ GrowTo(BurstPath, s)
    /\ DeliverTo(t, ModifiedFile, BurstPath)
    /\ nextBurst' = nextBurst + 1
    /\ hburst' = [hburst EXCEPT ![t] = nextBurst]
    /\ UNCHANGED <<processing_files, initial_size, total_size, copied_size, chunk, percentage,
                   dstSize, dstMeta, dstDir, dstCreated, timed, now, wake, bursts, evars, mvars, notified, replaced>>

\* time passes when nothing is due at the current instant
Tick ==
    /\ timed
    /\ now < MaxTime
    /\ ~BurstDue
    /\ \A t \in HThreads :
         /\ hpc[t] \notin UrgentPcs
         /\ hpc[t] \in {"sleep1", "sleep2"} => wake[t] > now
    /\ now' = now + 1
    /\ UNCHANGED <<hvars, timed, wake, bursts, nextBurst, hburst, evars, mvars, notified, replaced>>

(***************************************************************************)
(* utils: the folder prompt                                                *)
(***************************************************************************)
RECURSIVE LStrip(_)
LStrip(s) == IF s # <<>> /\ Head(s) \in Whitespace THEN LStrip(Tail(s)) ELSE s

RECURSIVE RStrip(_)
RStrip(s) ==
    IF s # <<>> /\ s[Len(s)] \in Whitespace THEN RStrip(SubSeq(s, 1, Len(s) - 1)) ELSE s

\* input(...).strip()
Strip(s) == RStrip(LStrip(s))

\* (variant: the separator may be an underscore)
ValidateLoose(s) ==
    /\ Len(s) = 5
    /\ s[1] \in Digits /\ s[2] \in Digits
    /\ s[3] \in {"-", "_"}
    /\ s[4] \in Digits /\ s[5] \in Digits

\* re.match(r'^\d{2}-\d{2}$', folder_name)
validate_folder_name(s) ==
    /\ Len(s) = 5
    /\ s[1] \in Digits /\ s[2] \in Digits
    /\ s[3] = "-"
    /\ s[4] \in Digits /\ s[5] \in Digits

\* the sub-folders of base_source_dir the operator can name
Dirs == {Strip(line) : line \in {l \in Typed : validate_folder_name(Strip(l))}}

(***************************************************************************)
(* FileMonitor                                                             *)
(***************************************************************************)
hall == <<hvars, tvars, evars, notified, replaced>>
ovars == <<nextObs, obsState, stopReq, obsWatch, inCb>>
fvars == <<observer, current_source_dir, running, menu_active>>

Goto(th, l) == pc' = [pc EXCEPT ![th] = l]

\* where start_monitoring returns to: run's loop, or show_menu's finally
AfterStart(th) == IF th = "main" THEN "m_loop" ELSE "menu_finally"
\* where stop returns to: the end of run, or show_menu's finally
AfterStop(th) == IF th = "main" THEN "m_done" ELSE "menu_finally"

\* statements of run() before its finally clause
RunBodyPcs == {"m_prompt", "m_setdir", "sm_check", "sm_create", "sm_schedule", "sm_start",
               "m_loop"}
\* statements of a key callback between the menu's opening and its close
MenuOpenPcs == {"menu_choice", "csf_test", "csf_stop", "csf_join", "csf_prompt", "csf_setdir",
                "sm_check", "sm_create", "sm_schedule", "sm_start", "stop_flag", "stop_test",
                "stop_stop", "stop_join", "menu_finally"}

\* where an exception raised by a menu action goes: show_menu's finally clause
\* in file_monitor.py; out of show_menu in file_copier.py, which has none
MenuRaised == IF legacy THEN "k_idle" ELSE "menu_finally"
\* where an exception raised inside stop() goes
StopRaised(th) == IF th = "main" THEN "m_done" ELSE MenuRaised

\* get_valid_folder_name: one line is read; an invalid one is reported and the
\* prompt is issued again
Prompt(th, at, next) ==
    /\ pc[th] = at
    /\ \E line \in typedLines :
         LET name == Strip(line) IN
         IF validate_folder_name(name)
         THEN /\ folder_name' = [folder_name EXCEPT ![th] = name]
              /\ Goto(th, next)
         ELSE UNCHANGED <<folder_name, pc>>
    /\ UNCHANGED <<hall, choice, xvars, fvars, ovars, raised, dirExists>>

\* self.current_source_dir = self.base_source_dir / folder_name
SetDir(th, at) ==
    /\ pc[th] = at
    /\ current_source_dir' = folder_name[th]
    /\ folder_name' = [folder_name EXCEPT ![th] = NoDir]
    /\ Goto(th, "sm_check")
    /\ UNCHANGED <<hall, choice, xvars, observer, running, menu_active, ovars, raised, dirExists>>

\* run: folder_name = get_valid_folder_name()
MPrompt == Prompt("main", "m_prompt", "m_setdir")

\* run: self.current_source_dir = self.base_source_dir / folder_name
MSetDir == SetDir("main", "m_setdir")

\* (variant: no test of the directory)
SourceMissingNever(dir, exists) == FALSE

\* not self.current_source_dir or not self.current_source_dir.exists()
SourceMissing(dir, exists) == dir = NoDir \/ ~exists[dir]

\* start_monitoring: if not self.current_source_dir or not ....exists(): return
SmCheck(th) ==
    /\ pc[th] = "sm_check"
    /\ IF SourceMissing(current_source_dir, dirExists)
       THEN Goto(th, AfterStart(th))
       ELSE Goto(th, "sm_create")
    /\ UNCHANGED <<hall, choice, xvars, fvars, ovars, folder_name, raised, dirExists>>

\* event_handler = FileHandler(...); self.observer = Observer()
SmCreate(th) ==
    /\ pc[th] = "sm_create"
    /\ nextObs <= obsCap
    /\ observer' = nextObs
    /\ obsState' = [obsState EXCEPT ![nextObs] = "created"]
    /\ nextObs' = nextObs + 1
    /\ Goto(th, "sm_schedule")
    /\ UNCHANGED <<hall, choice, xvars, current_source_dir, running, menu_active, stopReq, obsWatch, inCb, folder_name, raised, dirExists>>

\* schedule() or start() raises. file_monitor.py: start_monitoring's except
\* clause reports the error and the call returns. file_copier.py has no try
\* there: the exception leaves start_monitoring, into run()'s except clause
\* on the main thread, out of show_menu on a key thread
StartFails(th) ==
    IF ~legacy
    THEN Goto(th, AfterStart(th)) /\ UNCHANGED <<raised, xvars>>
    ELSE IF th = "main"
         THEN Goto(th, "stop_flag") /\ run_exc' = "OSError" /\ UNCHANGED <<raised, exit_code>>
         ELSE /\ Goto(th, MenuRaised)
              /\ raised' = [raised EXCEPT ![th] = "OSError"]
              /\ UNCHANGED xvars

\* self.observer.schedule(event_handler, str(self.current_source_dir), recursive=False)
SmSchedule(th) ==
    /\ pc[th] = "sm_schedule"
    /\ \E ok \in BOOLEAN :
         IF ok
         THEN /\ obsWatch' = [obsWatch EXCEPT ![observer] = @ \cup {current_source_dir}]
              /\ Goto(th, "sm_start")
              /\ UNCHANGED <<raised, xvars>>
         ELSE /\ obsWatch' = obsWatch
              /\ StartFails(th)
    /\ UNCHANGED <<hall, choice, fvars, nextObs, obsState, stopReq, inCb, folder_name, dirExists>>

\* Thread.start(): RuntimeError unless the thread was never started
StartRaises(state) == state # "created"

\* self.observer.start()
SmStart(th) ==
    /\ pc[th] = "sm_start"
    /\ \E ok \in BOOLEAN :
         IF ok /\ ~StartRaises(obsState[observer])
         THEN /\ obsState' = [obsState EXCEPT ![observer] = "running"]
              /\ Goto(th, AfterStart(th))
              /\ UNCHANGED <<raised, xvars>>
         ELSE /\ obsState' = obsState
              /\ StartFails(th)
    /\ UNCHANGED <<hall, choice, fvars, nextObs, stopReq, obsWatch, inCb, folder_name, dirExists>>

\* run: while self.running: time.sleep(0.1); then the finally clause
MLoop ==
    /\ pc["main"] = "m_loop"
    /\ ~running
    /\ Goto("main", "stop_flag")
    /\ UNCHANGED <<hall, choice, xvars, fvars, ovars, folder_name, raised, dirExists>>

\* run: except KeyboardInterrupt, then the finally clause
MInterrupt ==
    /\ pc["main"] \in RunBodyPcs
    /\ run_exc' = "KeyboardInterrupt"
    /\ Goto("main", "stop_flag")
    /\ folder_name' = [folder_name EXCEPT !["main"] = NoDir]
    /\ UNCHANGED <<hall, choice, exit_code, fvars, ovars, raised, dirExists>>

\* run: get_valid_folder_name's input() raises (EOFError on a closed stdin);
\* except Exception logs "Fatal error", then the finally clause
MFatal ==
    /\ pc["main"] = "m_prompt"
    /\ run_exc' = "EOFError"
    /\ Goto("main", "stop_flag")
    /\ UNCHANGED <<hall, choice, exit_code, fvars, ovars, folder_name, raised, dirExists>>

\* sys.exit(1) in main's except Exception; 0 when main returns or on
\* KeyboardInterrupt
ExitCode(exc) == IF exc \in {"none", "KeyboardInterrupt"} THEN 0 ELSE 1

\* main: monitor.run() has returned or raised; finally: keyboard.unhook_all()
MainExit ==
    /\ pc["main"] = "m_done"
    /\ exit_code' = ExitCode(raised["main"])
    /\ Goto("main", "exited")
    /\ UNCHANGED <<hall, choice, run_exc, fvars, ovars, folder_name, raised, dirExists>>

\* stop: self.running = False
StopFlag(th) ==
    /\ pc[th] = "stop_flag"
    /\ running' = FALSE
    /\ Goto(th, "stop_test")
    /\ UNCHANGED <<hall, choice, xvars, observer, current_source_dir, menu_active, ovars, folder_name,
                   raised, dirExists>>

\* stop: if self.observer:
StopTest(th) ==
    /\ pc[th] = "stop_test"
    /\ Goto(th, IF observer # NoObserver THEN "stop_stop" ELSE AfterStop(th))
    /\ UNCHANGED <<hall, choice, xvars, fvars, ovars, folder_name, raised, dirExists>>

\* self.observer.stop()
ObserverStop(th, at, next) ==
    /\ pc[th] = at
    /\ stopReq' = [stopReq EXCEPT ![observer] = @ \cup {th}]
    /\ Goto(th, next)
    /\ UNCHANGED <<hall, choice, xvars, fvars, nextObs, obsState, obsWatch, inCb, folder_name,
                   raised, dirExists>>

\* Thread.join(): RuntimeError on a thread that was never started
JoinRaises(state) == state = "created"

\* Thread.join() returns once the thread has exited
Joined(state) == state = "dead"

\* self.observer.join(): returns once the observer's thread has exited
ObserverJoin(th, at, next, onerror) ==
    /\ pc[th] = at
    /\ IF JoinRaises(obsState[observer])
       THEN /\ raised' = [raised EXCEPT ![th] = "RuntimeError"]
            /\ Goto(th, onerror)
       ELSE /\ Joined(obsState[observer])
            /\ raised' = raised
            /\ Goto(th, next)
    /\ UNCHANGED <<hall, choice, xvars, fvars, ovars, folder_name, dirExists>>

\* stop: self.observer.stop()
StopStop(th) == ObserverStop(th, "stop_stop", "stop_join")

\* stop: self.observer.join()
StopJoin(th) == ObserverJoin(th, "stop_join", AfterStop(th), StopRaised(th))

\* the key hook fires: monitor.show_menu() is entered on a listener thread
KeyPress(k) ==
    /\ k \in listeners
    /\ pc[k] = "k_idle"
    /\ pc["main"] \notin {"m_done", "exited"}
    /\ raised' = [raised EXCEPT ![k] = "none"]
    /\ choice' = [choice EXCEPT ![k] = NoChoice]
    /\ Goto(k, "menu_check")
    /\ UNCHANGED <<hall, xvars, fvars, ovars, folder_name, dirExists>>

\* show_menu: if self.menu_active: return
MenuCheck(k) ==
    /\ pc[k] = "menu_check"
    /\ Goto(k, IF menu_active THEN "k_idle" ELSE "menu_set")
    /\ UNCHANGED <<hall, choice, xvars, fvars, ovars, folder_name, raised, dirExists>>

\* show_menu: self.menu_active = True
MenuSet(k) ==
    /\ pc[k] = "menu_set"
    /\ menu_active' = TRUE
    /\ Goto(k, "menu_choice")
    /\ UNCHANGED <<hall, choice, xvars, observer, current_source_dir, running, ovars, folder_name, raised,
                   dirExists>>

\* (variant: every answer but "1" quits)
MenuActionQuits(answer) ==
    CASE answer = <<"1">> -> "csf_test"
      [] OTHER -> "stop_flag"

\* if choice == "1": self.change_source_folder() elif choice == "2": self.stop()
MenuAction(answer) ==
    CASE answer = <<"1">> -> "csf_test"
      [] answer = <<"2">> -> "stop_flag"
      [] OTHER -> "menu_finally"

\* show_menu: choice = input(...).strip(), then the action of the choice
MenuChoice(k) ==
    /\ pc[k] = "menu_choice"
    /\ \E line \in Choices :
         /\ choice' = [choice EXCEPT ![k] = Strip(line)]
         /\ Goto(k, MenuAction(Strip(line)))
    /\ UNCHANGED <<hall, xvars, fvars, ovars, folder_name, raised, dirExists>>

\* change_source_folder: if self.observer:
CsfTest(k) ==
    /\ pc[k] = "csf_test"
    /\ Goto(k, IF observer # NoObserver THEN "csf_stop" ELSE "csf_prompt")
    /\ UNCHANGED <<hall, choice, xvars, fvars, ovars, folder_name, raised, dirExists>>

\* change_source_folder: self.observer.stop()
CsfStop(k) == ObserverStop(k, "csf_stop", "csf_join")

\* change_source_folder: self.observer.join()
CsfJoin(k) == ObserverJoin(k, "csf_join", "csf_prompt", MenuRaised)

\* change_source_folder: folder_name = get_valid_folder_name()
CsfPrompt(k) == Prompt(k, "csf_prompt", "csf_setdir")

\* change_source_folder: self.current_source_dir = self.base_source_dir / folder_name
CsfSetDir(k) == SetDir(k, "csf_setdir")

\* show_menu: finally: self.menu_active = False
MenuFinally(k) ==
    /\ pc[k] = "menu_finally"
    /\ menu_active' = FALSE
    /\ Goto(k, "k_idle")
    /\ UNCHANGED <<hall, choice, xvars, observer, current_source_dir, running, ovars, folder_name, raised,
                   dirExists>>

(***************************************************************************)
(* The observers' threads                                                  *)
(***************************************************************************)
\* the observer's thread is alive (started and not yet exited)
Active(o) == obsState[o] = "running"
\* stop() has been called on the observer
StopRequested(o) == stopReq[o] # {}
\* the observers that pick up a change in directory d
Watchers(d) == {o \in Obs : Active(o) /\ ~StopRequested(o) /\ d \in obsWatch[o]}

\* a file of directory d is created or modified: every watch on d calls its handler
FsEvent(d) ==
    /\ dirExists[d]
    /\ Watchers(d) # {}
    /\ inCb' = [o \in Obs |-> inCb[o] \/ o \in Watchers(d)]
    /\ UNCHANGED <<hall, choice, xvars, fvars, nextObs, obsState, stopReq, obsWatch, pc, folder_name, raised,
                   dirExists>>

\* the handler callbacks of observer o have returned
CallbackEnd(o) ==
    /\ inCb[o]
    /\ inCb' = [inCb EXCEPT ![o] = FALSE]
    /\ UNCHANGED <<hall, choice, xvars, fvars, nextObs, obsState, stopReq, obsWatch, pc,
                   folder_name, raised, dirExists>>

\* a stopped observer's thread exits once no callback is executing
ObsExit(o) ==
    /\ Active(o)
    /\ StopRequested(o)
    /\ ~inCb[o]
    /\ obsState' = [obsState EXCEPT ![o] = "dead"]
    /\ UNCHANGED <<hall, choice, xvars, fvars, nextObs, stopReq, obsWatch, inCb, pc, folder_name,
                   raised, dirExists>>

(***************************************************************************)
(* Specifications                                                          *)
(***************************************************************************)
HandlerInit ==
    /\ processing_files = {}
    /\ hpc = [t \in HThreads |-> "idle"]
    /\ hpath = [t \in HThreads |-> NoPath]
    /\ event = [t \in HThreads |-> NoEvent]
    /\ initial_size = [t \in HThreads |-> 0]
    /\ total_size = [t \in HThreads |-> 0]
    /\ copied_size = [t \in HThreads |-> 0]
    /\ chunk = [t \in HThreads |-> 0]
    /\ percentage = [t \in HThreads |-> 0]
    /\ hlog = [t \in HThreads |-> <<>>]
    /\ escaped = [t \in HThreads |-> "none"]
    /\ pending = [t \in HThreads |-> "none"]
    /\ srcSize = [p \in Paths |-> 0]
    /\ dstSize = [d \in Destinations |-> Absent]
    /\ dstMeta = [d \in Destinations |-> FALSE]
    /\ dstCreated = FALSE
    /\ notified = {}
    /\ replaced = [t \in HThreads |-> Absent]
    /\ wake = [t \in HThreads |-> 0]
    /\ hburst = [t \in HThreads |-> 0]
    /\ now = 0

\* FileMonitor.__init__, and main() about to call monitor.run()
MonitorInit ==
    /\ observer = NoObserver
    /\ current_source_dir = NoDir
    /\ running = TRUE
    /\ menu_active = FALSE
    /\ pc = [th \in CThreads |-> IF th = "main" THEN "m_prompt" ELSE "k_idle"]
    /\ folder_name = [th \in CThreads |-> NoDir]
    /\ choice = [k \in KeyThreads |-> NoChoice]
    /\ raised = [th \in CThreads |-> "none"]
    /\ nextObs = 1
    /\ obsState = [o \in Obs |-> "unborn"]
    /\ stopReq = [o \in Obs |-> {}]
    /\ obsWatch = [o \in Obs |-> {}]
    /\ inCb = [o \in Obs |-> FALSE]
    /\ run_exc = "none"
    /\ exit_code = NoExit

HandlerStep(t) ==
    \/ Dispatch(t) \/ HCheck(t) \/ HAdd(t) \/ HSleep1(t) \/ HMkdir(t) \/ HStat1(t) \/ HSleep2(t)
    \/ HStat2(t) \/ CGetsize(t) \/ COpen(t) \/ CRead(t) \/ CWrite(t) \/ CUpdate(t)
    \/ CCopystat(t) \/ HExcept(t) \/ HLogSuccess(t) \/ HRelease(t)

\* the handler under notifications and writes at arbitrary moments
Init ==
    /\ HandlerInit
    /\ dstDir = "no_parent"
    /\ MonitorInit
    /\ legacy = FALSE
    /\ listeners = {}
    /\ obsCap = 0
    /\ kinds = {ModifiedFile}
    /\ typedLines = Typed
    /\ dirExists = [d \in Dirs |-> TRUE]
    /\ workers = HThreads
    /\ produced = {s \in SizeSet : s < chunk_size}
    /\ timed = FALSE
    /\ bursts = <<>>
    /\ nextBurst = 1

Next ==
    \/ \E t \in HThreads, e \in Events, p \in Paths : Deliver(t, e, p)
    \/ \E t \in HThreads : HandlerStep(t)
    \/ \E p \in Paths : Write(p)

Spec == Init /\ [][Next]_vars

\* the handler under a writer of two bursts, with the sleeps at their nominal length
TimedInit ==
    /\ HandlerInit
    /\ dstDir = "no_parent"
    /\ MonitorInit
    /\ legacy = FALSE
    /\ listeners = {}
    /\ obsCap = 0
    /\ kinds = {ModifiedFile}
    /\ typedLines = Typed
    /\ dirExists = [d \in Dirs |-> TRUE]
    /\ workers = HThreads
    /\ produced = SizeSet
    /\ timed = TRUE
    /\ \E g \in 1..MaxGap : bursts = <<0, g>>
    /\ nextBurst = 1

TimedNext ==
    \/ \E t \in HThreads : Burst(t)
    \/ \E t \in HThreads : HandlerStep(t)
    \/ Tick

SpecTimed == TimedInit /\ [][TimedNext]_vars

\* one copy at a time, over every size of the source
CopyInit ==
    /\ HandlerInit
    /\ dstDir \in DirStates
    /\ MonitorInit
    /\ legacy = FALSE
    /\ listeners = {}
    /\ obsCap = 0
    /\ kinds = {ModifiedFile}
    /\ typedLines = Typed
    /\ dirExists = [d \in Dirs |-> TRUE]
    /\ workers = {"w1"}
    /\ produced = SizeSet
    /\ timed = FALSE
    /\ bursts = <<>>
    /\ nextBurst = 1

SpecCopy == CopyInit /\ [][Next]_vars

\* one handler thread, under every kind of event the watch reports
EventsInit ==
    /\ HandlerInit
    /\ dstDir = "no_parent"
    /\ MonitorInit
    /\ legacy = FALSE
    /\ listeners = {}
    /\ obsCap = 0
    /\ kinds = Events
    /\ typedLines = Typed
    /\ dirExists = [d \in Dirs |-> TRUE]
    /\ workers = {"w1"}
    /\ produced = {s \in SizeSet : s < chunk_size}
    /\ timed = FALSE
    /\ bursts = <<>>
    /\ nextBurst = 1

SpecEvents == EventsInit /\ [][Next]_vars

\* the files the producer writes in the scenario of one file
Written == {APng}

\* one file written in up to three appends, a notification raised for each
\* write, callbacks on both threads
NotifyInit ==
    /\ HandlerInit
    /\ dstDir = "no_parent"
    /\ MonitorInit
    /\ legacy = FALSE
    /\ listeners = {}
    /\ obsCap = 0
    /\ kinds = {ModifiedFile}
    /\ typedLines = Typed
    /\ dirExists = [d \in Dirs |-> TRUE]
    /\ workers = HThreads
    /\ produced = SizeSet
    /\ timed = FALSE
    /\ bursts = <<>>
    /\ nextBurst = 1

NotifyNext ==
    \/ \E p \in Written : Modify(p)
    \/ \E t \in HThreads, p \in Written : Notify(t, p)
    \/ \E t \in HThreads : HandlerStep(t)

\* every callback that can take a step eventually takes one, and a waiting
\* notification is eventually handed to a thread; the producer writes when it
\* pleases
HandlersRun ==
    /\ \A t \in HThreads : WF_vars(HandlerStep(t))
    /\ \A p \in Written : WF_vars(\E t \in HThreads : Notify(t, p))

SpecNotify == NotifyInit /\ [][NotifyNext]_vars /\ HandlersRun

\* the controller: run() on the main thread, key callbacks, the observers
ControllerInit ==
    /\ HandlerInit
    /\ dstDir = "no_parent"
    /\ workers = {}
    /\ produced = {}
    /\ timed = FALSE
    /\ bursts = <<>>
    /\ nextBurst = 1
    /\ MonitorInit
    /\ legacy = FALSE
    /\ listeners = {"k1"}
    /\ obsCap = MaxObservers
    /\ kinds = {ModifiedFile}
    /\ typedLines = Typed
    /\ dirExists \in [Dirs -> BOOLEAN]

ControllerStep(th) ==
    \/ SmCheck(th) \/ SmCreate(th) \/ SmSchedule(th) \/ SmStart(th)
    \/ StopFlag(th) \/ StopTest(th) \/ StopStop(th) \/ StopJoin(th)

KeyStep(k) ==
    \/ KeyPress(k) \/ MenuCheck(k) \/ MenuSet(k) \/ MenuChoice(k) \/ CsfTest(k)
    \/ CsfStop(k) \/ CsfJoin(k) \/ CsfPrompt(k) \/ CsfSetDir(k) \/ MenuFinally(k)

ControllerNext ==
    \/ MPrompt \/ MSetDir \/ MLoop \/ MInterrupt \/ MFatal \/ MainExit
    \/ \E th \in CThreads : ControllerStep(th)
    \/ \E k \in KeyThreads : KeyStep(k)
    \/ \E d \in Dirs : FsEvent(d)
    \/ \E o \in Obs : CallbackEnd(o) \/ ObsExit(o)

SpecController == ControllerInit /\ [][ControllerNext]_vars

\* the controller with key callbacks arriving on two threads, one folder and
\* one observer
KeysInit ==
    /\ HandlerInit
    /\ dstDir = "no_parent"
    /\ workers = {}
    /\ produced = {}
    /\ timed = FALSE
    /\ bursts = <<>>
    /\ nextBurst = 1
    /\ MonitorInit
    /\ legacy = FALSE
    /\ listeners = KeyThreads
    /\ obsCap = 1
    /\ kinds = {ModifiedFile}
    /\ typedLines = {<<"0", "1", "-", "0", "4">>}
    /\ dirExists = [d \in Dirs |-> TRUE]

SpecKeys == KeysInit /\ [][ControllerNext]_vars

\* the controller with an operator who types one and the same line at every
\* folder prompt
PromptInit ==
    /\ HandlerInit
    /\ dstDir = "no_parent"
    /\ workers = {}
    /\ produced = {}
    /\ timed = FALSE
    /\ bursts = <<>>
    /\ nextBurst = 1
    /\ MonitorInit
    /\ legacy = FALSE
    /\ listeners = {"k1"}
    /\ obsCap = MaxObservers - 1
    /\ kinds = {ModifiedFile}
    /\ \E line \in Typed : typedLines = {line}
    /\ dirExists = [d \in Dirs |-> TRUE]

SpecPrompt == PromptInit /\ [][ControllerNext]_vars

\* file_copier.py: FileMonitor.run() on the main thread up to its return, one
\* key thread
LegacyInit ==
    /\ HandlerInit
    /\ dstDir = "no_parent"
    /\ workers = {}
    /\ produced = {}
    /\ timed = FALSE
    /\ bursts = <<>>
    /\ nextBurst = 1
    /\ MonitorInit
    /\ legacy = TRUE
    /\ listeners = {"k1"}
    /\ obsCap = MaxObservers - 1
    /\ kinds = {ModifiedFile}
    /\ typedLines = Typed
    /\ dirExists \in [Dirs -> BOOLEAN]

LegacyNext ==
    \/ MPrompt \/ MSetDir \/ MLoop \/ MInterrupt \/ MFatal
    \/ \E th \in CThreads : ControllerStep(th)
    \/ \E k \in KeyThreads : KeyStep(k)
    \/ \E d \in Dirs : FsEvent(d)
    \/ \E o \in Obs : CallbackEnd(o) \/ ObsExit(o)

SpecLegacy == LegacyInit /\ [][LegacyNext]_vars

\* what the operator does: key presses, answers to the menu and to the folder
\* prompt, Ctrl-C, closing the input
OperatorInput ==
    \/ MPrompt \/ MInterrupt \/ MFatal
    \/ \E k \in KeyThreads : KeyPress(k) \/ MenuChoice(k) \/ CsfPrompt(k)

\* a step of the program's own threads: main thread, key callbacks, observers
ProgramStep ==
    \/ MSetDir \/ MLoop \/ MainExit
    \/ \E th \in CThreads : ControllerStep(th)
    \/ \E k \in KeyThreads :
         \/ MenuCheck(k) \/ MenuSet(k) \/ CsfTest(k) \/ CsfStop(k) \/ CsfJoin(k)
         \/ CsfSetDir(k) \/ MenuFinally(k)
    \/ \E o \in Obs : CallbackEnd(o) \/ ObsExit(o)

\* every thread that can take a step eventually takes one; the operator and
\* the file system act when they please
ThreadsRun ==
    /\ WF_vars(MSetDir \/ MLoop \/ MainExit \/ ControllerStep("main"))
    /\ \A k \in KeyThreads :
         WF_vars(\/ ControllerStep(k) \/ MenuCheck(k) \/ MenuSet(k) \/ CsfTest(k)
                 \/ CsfStop(k) \/ CsfJoin(k) \/ CsfSetDir(k) \/ MenuFinally(k))
    /\ \A o \in Obs : WF_vars(CallbackEnd(o) \/ ObsExit(o))

\* the controller with one key thread, all folders present, under fair scheduling
FairInit ==
    /\ HandlerInit
    /\ dstDir = "no_parent"
    /\ workers = {}
    /\ produced = {}
    /\ timed = FALSE
    /\ bursts = <<>>
    /\ nextBurst = 1
    /\ MonitorInit
    /\ legacy = FALSE
    /\ listeners = {"k1"}
    /\ obsCap = MaxObservers - 1
    /\ kinds = {ModifiedFile}
    /\ typedLines = Typed
    /\ dirExists = [d \in Dirs |-> TRUE]

\* once the running flag is cleared the operator gives no further input
FairNext ==
    \/ running /\ OperatorInput
    \/ ProgramStep
    \/ \E d \in Dirs : FsEvent(d)

SpecFair == FairInit /\ [][FairNext]_vars /\ ThreadsRun

(***************************************************************************)
(* Properties of the event handler                                         *)
(***************************************************************************)
\* the invocations for p that are between the insert and the release
InFlight(p) == {t \in HThreads : hpath[t] = p /\ hpc[t] \in InFlightPcs}

\* C1: for every path at most one copy is in progress at any instant: two
\* notifications for the same path never both pass the membership check.
C1_OneCopyPerPath == \A p \in Paths : Cardinality(InFlight(p)) <= 1

\* C3: when an invocation for p finishes, on whatever exit, p is not in
\* processing_files afterwards; a path with no invocation in progress is never
\* marked, so a later notification for it passes the check.
C3_MarkerReleased ==
    /\ [](\A p \in Paths : InFlight(p) = {} => p \notin processing_files)
    /\ [][\A t \in HThreads :
            (hpc[t] \in InFlightPcs /\ hpc'[t] = "idle") => hpath[t] \notin processing_files']_vars

\* an invocation for a.png ended with a logged failure, and a later
\* notification for a.png has passed the check and the insert
C3_Witness ==
    \E t, u \in HThreads :
        /\ hpc[t] = "idle" /\ hlog[t] = <<ErrorRecord(APng, "OSError")>>
        /\ hpath[u] = APng /\ hpc[u] = "sleep1"
        /\ processing_files = {APng}

\* C7: an I/O failure while processing a file reaches the except clause, is
\* logged there with the file name and the cause, and never leaves the
\* callback; the thread goes on to release the marker and return.
C7_FailureIsolated ==
    /\ [](\A t \in HThreads :
            /\ escaped[t] \in {"none", "KeyError"}
            /\ pending[t] # "none" => hpc[t] = "except")
    /\ [][\A t \in HThreads :
            (pending[t] # "none" /\ pending'[t] = "none") =>
                /\ hlog'[t] = <<ErrorRecord(hpath[t], pending[t])>>
                /\ hpc'[t] = "release"]_vars

\* a.png failed with an I/O error that was logged and did not escape, and the
\* notification for b.png was copied
C7_Witness ==
    \E t, u \in HThreads :
        /\ hpc[t] = "idle" /\ hlog[t] = <<ErrorRecord(APng, "OSError")>>
        /\ escaped[t] = "none"
        /\ hpc[u] = "idle" /\ hlog[u] = <<SuccessRecord(BPng)>>
        /\ dstMeta[destination_path(BPng)]

\* C10: progress reporting is observational: a copy fails only where the copy
\* without ProgressBar.update fails, that is on an I/O failure.
C10_ProgressObservational ==
    \A t \in HThreads : pending[t] # "none" => pending[t] = "OSError"

(***************************************************************************)
(* The two-burst scenario                                                  *)
(***************************************************************************)
\* times of the two size reads of the handler the first burst triggers
Read1At == GraceTicks
Read2At == GraceTicks + CheckTicks
Gap == bursts[2]
BetweenBursts == nextBurst = 2

\* C6 as stated: with the bursts 2 seconds apart, the handler of the first
\* burst does not declare the file stable between the bursts and copies nothing.
C6_NoCopyBetweenBursts ==
    (timed /\ Gap = ClaimGap /\ BetweenBursts) =>
        /\ \A t \in HThreads : hpc[t] \notin CopyPcs
        /\ dstSize[destination_path(BurstPath)] = Absent

\* C6 amended: when the second burst comes after the second size read (as it
\* does 2 seconds apart), the handler of the first burst has declared the file
\* stable and is copying, or has logged its outcome, once the read is past;
\* when the second burst falls between the two reads that handler copies nothing.
C6_StableBetweenBursts ==
    timed =>
        /\ (Gap > Read2At /\ BetweenBursts /\ now > Read2At) =>
                \E t \in HThreads :
                    /\ hburst[t] = 1
                    /\ \/ hpc[t] \in CopyPcs \cup {"except"}
                       \/ hpc[t] \in {"release", "idle"} /\ hlog[t] # <<>>
        /\ (Gap > Read1At /\ Gap < Read2At) =>
                \A t \in HThreads :
                    hburst[t] = 1 =>
                        /\ hpc[t] \notin CopyPcs
                        /\ hlog[t] # <<SuccessRecord(BurstPath)>>

\* bursts 2 seconds apart: the content of the first burst is at the
\* destination, logged as a success, before the second burst
C6_Witness ==
    /\ timed /\ Gap = ClaimGap /\ BetweenBursts
    /\ \E t \in HThreads : hlog[t] = <<SuccessRecord(BurstPath)>>
    /\ dstSize[destination_path(BurstPath)] = srcSize[BurstPath]
    /\ dstMeta[destination_path(BurstPath)]

(***************************************************************************)
(* Properties of the session controller                                    *)
(***************************************************************************)
\* no controller operation is in progress: run() idles in its loop, no menu is open
Steady == pc["main"] = "m_loop" /\ \A k \in KeyThreads : pc[k] = "k_idle"
\* the session the controller refers to is delivering events
SessionInUse == observer # NoObserver /\ Active(observer) /\ ~StopRequested(observer)

\* C2: at most one watch session (an observer started and not yet exited) is
\* active at any time, also when the key hook runs show_menu during run()'s
\* initial folder prompt.
C2_OneActiveSession == Cardinality({o \in Obs : Active(o)}) <= 1

\* C4: the old session is stopped and joined before the new one delivers
\* events: while a callback of a session executes, every session constructed
\* before it has exited, so callbacks of two sessions never interleave.
C4_OldSessionJoinedFirst ==
    \A o, n \in Obs : (o < n /\ inCb[n]) => (~Active(o) /\ ~inCb[o])

\* C5: after a switch of folder has completed, the session in use watches the
\* selected directory (its notifications are handled) and no active watch is
\* left on another directory.
C5_SwitchKeepsOneWatch ==
    (Steady /\ running /\ SessionInUse) =>
        /\ current_source_dir \in obsWatch[observer]
        /\ \A o \in Obs : (Active(o) /\ ~StopRequested(o)) => obsWatch[o] \subseteq {current_source_dir}

\* C8: only one menu is open at a time, under every interleaving of the key
\* callbacks.
C8_OneMenuOpen == Cardinality({k \in KeyThreads : pc[k] \in MenuOpenPcs}) <= 1

\* C9: once stop() has cleared the running flag no watch session is started,
\* and none is active when run() has returned.
C9_StoppedIsTerminal ==
    /\ [][~running => \A o \in Obs : ~Active(o) => ~Active(o)']_vars
    /\ [](pc["main"] = "m_done" => \A o \in Obs : ~Active(o))

(***************************************************************************)
(* Properties of the dispatch of events                                    *)
(***************************************************************************)
\* C11: a created or a modified notification for a file makes the handler
\* process the path (the in-flight check is entered); a notification for a
\* directory causes no processing.
C11_CreatedAndModifiedProcessed ==
    [][\A t \in HThreads :
        (hpc[t] = "dispatch" /\ hpc'[t] # "dispatch") =>
            (hpc'[t] = "check" <=> ~event[t].is_directory)]_vars

(***************************************************************************)
(* Properties of the process exit                                          *)
(***************************************************************************)
\* C12: the exit code is 0 after a clean quit (the loop ended, or the operator
\* interrupted) and non-zero after a failure, also one raised inside run().
C12_ExitCodeTellsFailure ==
    exit_code # NoExit =>
        (exit_code = 0 <=> (run_exc \in {"none", "KeyboardInterrupt"} /\ raised["main"] = "none"))

(***************************************************************************)
(* Properties of the folder prompt                                         *)
(***************************************************************************)
\* two digits, a hyphen, two digits
Identifiers == {<<a, b, "-", c, d>> : a, b, c, d \in Digits}
\* "1-04", "01-4", "ab-04", "01_04", ""
RejectedLines == {<<"1", "-", "0", "4">>, <<"0", "1", "-", "4">>, <<"a", "b", "-", "0", "4">>,
                  <<"0", "1", "_", "0", "4">>, <<>>}
PromptPcs == {"m_prompt", "csf_prompt"}
SetDirPcs == {"m_setdir", "csf_setdir"}

\* C13: get_valid_folder_name returns only identifiers made of two digits, a
\* hyphen and two digits; while the operator types "01-04" that is what it
\* returns, and while the operator types one of "1-04", "01-4", "ab-04",
\* "01_04", "" the prompt is issued again and nothing is returned.
C13_PromptAcceptsIdentifiers ==
    /\ [](\A th \in CThreads : folder_name[th] # NoDir => folder_name[th] \in Identifiers)
    /\ [](\A th \in CThreads :
            (typedLines = {<<"0", "1", "-", "0", "4">>} /\ pc[th] \in SetDirPcs) =>
                folder_name[th] = <<"0", "1", "-", "0", "4">>)
    /\ [][\A th \in CThreads :
            (typedLines \subseteq RejectedLines /\ pc[th] \in PromptPcs) =>
                /\ pc'[th] \in PromptPcs \cup {"stop_flag"}
                /\ folder_name'[th] = NoDir]_vars

\* the operator typed "01-04" and the prompt returned it
C13_Witness ==
    /\ typedLines = {<<"0", "1", "-", "0", "4">>}
    /\ pc["main"] = "m_setdir"
    /\ folder_name["main"] = <<"0", "1", "-", "0", "4">>

(***************************************************************************)
(* Properties of the destination directory                                 *)
(***************************************************************************)
\* statements of _copy_file after the mkdir has returned
AfterMkdirPcs == {"stat1", "sleep2", "stat2"} \cup CopyPcs

\* C14: whatever part of the destination path is missing, a mkdir that returns
\* has created the tree, so the copy writes into an existing directory; on an
\* existing directory the mkdir raises no error.
C14_DestinationTreeCreated ==
    /\ [](\A t \in HThreads : hpc[t] \in AfterMkdirPcs => dstDir = "dir")
    /\ [](\A p \in Paths : dstSize[destination_path(p)] # Absent => dstDir = "dir")
    /\ [][\A t \in HThreads :
            (hpc[t] = "mkdir" /\ dstDir = "dir") => hpc'[t] \in {"mkdir", "stat1"}]_vars

\* the destination tree was missing, mkdir created it, and the stable file was
\* copied there with its metadata
C14_Witness ==
    /\ dstCreated
    /\ \E t \in HThreads :
         /\ hpc[t] = "idle" /\ hlog[t] = <<SuccessRecord(APng)>>
         /\ dstSize[destination_path(APng)] = srcSize[APng] /\ srcSize[APng] > 0
         /\ dstMeta[destination_path(APng)]

(***************************************************************************)
(* Properties of the in-flight set                                         *)
(***************************************************************************)
\* C15: processing_files is exactly the set of paths with an invocation
\* between its insert and its release (so it is empty when no callback
\* executes), and no removal is attempted on a path that is absent.
C15_SetIsExactlyInFlight ==
    /\ processing_files = {p \in Paths : InFlight(p) # {}}
    /\ \A t \in HThreads : escaped[t] # "KeyError"

(***************************************************************************)
(* Properties of the unstable verdict                                      *)
(***************************************************************************)
\* the invocation of t has returned from _copy_file on the unstable verdict
ReturnedUnstable(t) == hpc[t] = "release" /\ hlog[t] = <<>> /\ pending[t] = "none"

\* C16: when the two size reads differ the handler leaves _copy_file without
\* copying: nothing is written to the destination, nothing is logged, and the
\* marker is released; an idle handler does nothing until a notification is
\* delivered (it owns no timer).
C16_UnstableReturnsQuietly ==
    /\ [][\A t \in HThreads :
            (hpc[t] = "stat2" /\ hpc'[t] # "stat2") =>
                IF initial_size[t] # srcSize[hpath[t]]
                THEN /\ hpc'[t] \in {"release", "except"}
                     /\ hpc'[t] = "release" => ReturnedUnstable(t)'
                     /\ dstSize' = dstSize /\ dstMeta' = dstMeta
                ELSE hpc'[t] \in {"getsize", "except"}]_vars
    /\ [][\A t \in HThreads :
            (ReturnedUnstable(t) /\ hpc'[t] # "release") =>
                /\ hpc'[t] = "idle" /\ hlog'[t] = <<>>
                /\ hpath[t] \notin processing_files'
                /\ dstSize' = dstSize /\ dstMeta' = dstMeta]_vars
    /\ [][\A t \in HThreads : hpc[t] = "idle" => hpc'[t] \in {"idle", "dispatch"}]_vars

\* the file grew between the two reads: the invocation returns with nothing
\* at the destination and nothing logged
C16_Witness ==
    \E t \in HThreads :
        /\ ReturnedUnstable(t)
        /\ hpath[t] = APng /\ initial_size[t] < srcSize[APng]
        /\ dstSize[destination_path(APng)] = Absent

(***************************************************************************)
(* Properties of stop and join                                             *)
(***************************************************************************)
JoinPcs == {"stop_join", "csf_join"}

\* C17: when the join of stop() or of change_source_folder returns, the watch
\* thread of every session this thread has stopped has exited; a callback
\* that is executing is never cancelled (the thread exits only between
\* callbacks), and no callback of a session begins once stop() was called on it.
C17_StopReturnsAfterExit ==
    /\ [][\A th \in CThreads :
            (pc[th] \in JoinPcs /\ pc'[th] \notin JoinPcs /\ raised'[th] = "none") =>
                \A o \in Obs : th \in stopReq[o] => ~Active(o)]_vars
    /\ [][\A o \in Obs :
            /\ (Active(o) /\ ~Active(o)') => ~inCb[o]
            /\ (StopRequested(o) /\ inCb'[o]) => inCb[o]
            /\ (obsState[o] = "dead" /\ inCb'[o]) => inCb[o]]_vars

(***************************************************************************)
(* Properties of quitting                                                  *)
(***************************************************************************)
\* run() has returned
Stopped == pc["main"] \in {"m_done", "exited"}
\* the operator has just chosen quit in the menu of key thread k
QuitChosen(k) == pc[k] = "stop_flag"

\* C18: after the operator has chosen quit, stop() clears the running flag and
\* run() eventually returns, with no input of the operator after the flag is
\* cleared (or the run has used up its observers).
C18_QuitReachesStopped ==
    \A k \in KeyThreads :
        QuitChosen(k) ~> (~running /\ (Stopped \/ nextObs > obsCap))

(***************************************************************************)
(* Properties of run()'s cleanup                                           *)
(***************************************************************************)
StopPcs == {"stop_flag", "stop_test", "stop_stop", "stop_join"}

\* C19: run() leaves its body only into stop(), on every path; when run() has
\* returned the running flag is false and every session stop() has stopped
\* has been joined: its thread has exited.
C19_RunCleansUp ==
    /\ [][(pc["main"] \in RunBodyPcs /\ pc'["main"] \notin RunBodyPcs) =>
                pc'["main"] = "stop_flag"]_vars
    /\ [][(pc["main"] # "m_done" /\ pc'["main"] = "m_done") => pc["main"] \in StopPcs]_vars
    /\ [](pc["main"] = "m_done" /\ raised["main"] = "none" =>
            /\ ~running
            /\ \A o \in Obs : "main" \in stopReq[o] => ~Active(o))

(***************************************************************************)
(* Properties of start_monitoring on a missing directory                   *)
(***************************************************************************)
\* C20: when the selected directory does not exist start_monitoring returns
\* to its caller at once: no observer is created or started, the observer
\* reference and the running flag are unchanged, and no prompt is issued by
\* start_monitoring itself.
C20_MissingDirStartsNothing ==
    [][\A th \in CThreads :
        (/\ pc[th] = "sm_check" /\ pc'[th] \notin {"sm_check", "stop_flag"}
         /\ current_source_dir # NoDir /\ ~dirExists[current_source_dir]) =>
            /\ pc'[th] = AfterStart(th)
            /\ observer' = observer /\ nextObs' = nextObs /\ obsState' = obsState
            /\ obsWatch' = obsWatch
            /\ running' = running
            /\ current_source_dir' = current_source_dir /\ folder_name' = folder_name]_vars

\* the folder typed at the initial prompt does not exist: run() idles in its
\* loop with no observer, still running
C20_Witness ==
    /\ pc["main"] = "m_loop" /\ running
    /\ current_source_dir # NoDir /\ ~dirExists[current_source_dir]
    /\ observer = NoObserver /\ nextObs = 1
    /\ \A k \in KeyThreads : pc[k] = "k_idle"

(***************************************************************************)
(* Properties of the open-menu signal                                      *)
(***************************************************************************)
\* run() idles in its loop with the running flag set
Monitoring == pc["main"] = "m_loop" /\ running

\* C21: a key press opens the menu only from Monitoring: show_menu sets
\* menu_active (and goes on to its choice) only while run() is in its loop with
\* the running flag set, not during the initial folder prompt and not after
\* stop() has cleared the flag.
C21_MenuOnlyFromMonitoring ==
    [][\A k \in KeyThreads :
        (pc[k] = "menu_set" /\ pc'[k] = "menu_choice") => Monitoring]_vars

(***************************************************************************)
(* Properties of copy_with_progress                                        *)
(***************************************************************************)
\* statements of the loop of copy_with_progress
LoopPcs == {"read", "write", "update"}
\* the largest source: whole chunks and one odd byte
LargestSource == MaxChunks * chunk_size + 1

\* C22: a copy reads chunks of 1..8192 bytes from the position the last read
\* ended at, appends each chunk to the destination before the next read, and
\* reports after each chunk the count of bytes written so far; the metadata is
\* propagated only after the read that found the end of the file, and when
\* the copy returns the destination holds exactly the bytes read.
C22_ChunkedCopy ==
    /\ [](\A t \in HThreads :
            /\ chunk[t] <= chunk_size
            /\ hpc[t] = "write" =>
                    /\ chunk[t] >= 1
                    /\ copied_size[t] + chunk[t] <= srcSize[hpath[t]]
                    /\ dstSize[destination_path(hpath[t])] = copied_size[t]
            /\ hpc[t] = "update" => copied_size[t] = dstSize[destination_path(hpath[t])]
            /\ hpc[t] \in LoopPcs => ~dstMeta[destination_path(hpath[t])]
            /\ hpc[t] = "logok" =>
                    /\ dstSize[destination_path(hpath[t])] = copied_size[t]
                    /\ dstMeta[destination_path(hpath[t])])
    /\ [][\A t \in HThreads :
            /\ (hpc[t] = "write" /\ hpc'[t] = "update") =>
                    /\ dstSize'[destination_path(hpath[t])] = dstSize[destination_path(hpath[t])] + chunk[t]
                    /\ copied_size'[t] = copied_size[t] + chunk[t]
            /\ (hpc[t] = "update" /\ hpc'[t] = "read") =>
                    percentage'[t] = Min(100, (copied_size[t] * 100) \div total_size[t])
            /\ (hpc[t] = "read" /\ hpc'[t] = "copystat") =>
                    copied_size[t] = srcSize[hpath[t]]
            /\ (hpc[t] \in CopyPcs /\ ~dstMeta[destination_path(hpath[t])] /\ dstMeta'[destination_path(hpath[t])]) =>
                    hpc[t] = "copystat" /\ chunk[t] = 0]_vars

\* a source of 8193 bytes was copied in two chunks, of 8192 bytes and of 1
\* byte, and its metadata propagated
C22_Witness ==
    \E t \in HThreads :
        /\ hpc[t] = "logok"
        /\ total_size[t] = LargestSource /\ copied_size[t] = LargestSource
        /\ dstSize[destination_path(hpath[t])] = LargestSource /\ dstMeta[destination_path(hpath[t])]
        /\ percentage[t] = 100

(***************************************************************************)
(* Properties of the outcome records                                       *)
(***************************************************************************)
\* C23: an invocation that has passed the stability check emits exactly one
\* outcome record: nothing while it copies, then the success record (file,
\* source, destination) when the copy and the metadata propagation have
\* completed, or else the failure record (file, error text) of the exception
\* that ended the copy; the record stands alone when the handler returns.
C23_OneOutcomeRecord ==
    /\ [](\A t \in HThreads :
            /\ hpc[t] \in CopyPcs => hlog[t] = <<>>
            /\ Len(hlog[t]) <= 1)
    /\ [][\A t \in HThreads :
            /\ (hpc[t] \in CopyPcs /\ hpc'[t] \notin CopyPcs) =>
                    IF hpc[t] = "logok"
                    THEN hpc'[t] = "release" /\ hlog'[t] = <<SuccessRecord(hpath[t])>>
                    ELSE hpc'[t] = "except" /\ pending'[t] # "none" /\ hlog'[t] = <<>>
            /\ (hpc[t] = "except" /\ hpc'[t] # "except") =>
                    hpc'[t] = "release" /\ hlog'[t] = <<ErrorRecord(hpath[t], pending[t])>>
            /\ (hpc[t] = "release" /\ hpc'[t] # "release") =>
                    hpc'[t] = "idle" /\ hlog'[t] = hlog[t]
            /\ (hpc[t] = "copystat" /\ hpc'[t] = "logok") => dstMeta'[destination_path(hpath[t])]]_vars

\* one invocation has returned with its success record, another with the
\* failure record of an error raised inside the copy
C23_Witness ==
    \E t, u \in HThreads :
        /\ hpc[t] = "idle" /\ hlog[t] = <<SuccessRecord(APng)>>
        /\ hpc[u] = "idle" /\ hlog[u] = <<ErrorRecord(BPng, "ZeroDivisionError")>>

(***************************************************************************)
(* Properties of a failed start of the watch                               *)
(***************************************************************************)
\* statements of start_monitoring
SmPcs == {"sm_check", "sm_create", "sm_schedule", "sm_start"}
\* the observer reference points at an Observer whose start did not happen,
\* and no thread is inside start_monitoring to start it
LeftUnstarted ==
    /\ observer # NoObserver
    /\ obsState[observer] = "created"
    /\ \A u \in CThreads : pc[u] \notin SmPcs

\* C24: a failure of schedule() or start() inside start_monitoring is caught
\* there: the caller goes on, the running flag is unchanged and the observer
\* is not active; a stop() that then finds the never-started Observer returns
\* without raising.
C24_FailedStartIsHarmless ==
    [][\A th \in CThreads :
        /\ (pc[th] \in {"sm_schedule", "sm_start"} /\ pc'[th] \notin SmPcs \cup {"stop_flag"}) =>
                /\ pc'[th] = AfterStart(th)
                /\ running' = running
                /\ raised'[th] = raised[th]
        /\ (pc[th] = "stop_join" /\ pc'[th] # "stop_join" /\ LeftUnstarted) =>
                raised'[th] = "none"]_vars

(***************************************************************************)
(* Properties of the Monitoring state                                      *)
(***************************************************************************)
\* the watch sessions whose thread is alive
ActiveSessions == {o \in Obs : Active(o)}

\* C25: while run() idles in its loop with the running flag set and no key
\* callback is in progress (no menu open, no prompt pending), exactly one
\* watch session is active: the one self.observer refers to, watching
\* current_source_dir; also after the selection of a folder that does not exist.
C25_MonitoringHasOneSession ==
    (Steady /\ running) =>
        /\ ActiveSessions = {observer}
        /\ obsWatch[observer] = {current_source_dir}

(***************************************************************************)
(* Properties of the delivery of the final content                         *)
(***************************************************************************)
\* no exception is raised in any callback
NoFailure == \A t \in HThreads : pending[t] = "none" /\ escaped[t] = "none"
\* the destination holds p in the size s, with its metadata
CopiedAs(p, s) == dstSize[destination_path(p)] = s /\ dstMeta[destination_path(p)]

InShowMenu(k) == pc[k] # "k_idle"

\* C27: menu_active is false whenever no show_menu invocation is executing:
\* every exit of show_menu clears it, also the exit by an exception raised in
\* change_source_folder or stop, so that the next key press opens the menu.
C27_MenuGuardCleared ==
    (\A k \in KeyThreads : ~InShowMenu(k)) => ~menu_active

(***************************************************************************)
(* Properties of a repeated stop                                           *)
(***************************************************************************)
\* run()'s finally clause calls stop() after the loop has ended: the flag was
\* cleared by the stop() of the menu, which has returned or is still executing
SecondStop == pc["main"] \in StopPcs /\ run_exc = "none"
\* the state one call of stop() leaves: the flag cleared, the observer stopped
\* and its thread exited
StoppedAndJoined ==
    /\ ~running
    /\ observer # NoObserver => (StopRequested(observer) /\ ~Active(observer))

\* C28: stop() called a second time, by run()'s finally clause after quit was
\* chosen in the menu, with the first call finished or still executing on
\* the key thread, raises no error and returns in the state one call leaves:
\* running false, the observer stopped and joined; the call of the menu
\* raises no error either.
C28_StopIdempotent ==
    [][/\ (SecondStop /\ pc'["main"] \notin StopPcs) =>
                raised'["main"] = "none" /\ StoppedAndJoined'
       /\ \A k \in KeyThreads :
            (pc[k] \in StopPcs /\ pc'[k] \notin StopPcs) => raised'[k] = "none"]_vars

(***************************************************************************)
(* Properties of an unknown menu choice                                    *)
(***************************************************************************)
\* the answer of key thread k to the menu is neither "1" nor "2"
OtherChoice(k) == choice[k] \notin {NoChoice, <<"1">>, <<"2">>}
\* the controller's fields and the sessions
SessionState == <<observer, current_source_dir, running, obsState, stopReq, obsWatch>>

\* C29: after an answer other than "1" or "2" show_menu performs no action: it
\* goes straight to its finally clause and returns with menu_active false;
\* neither step changes the observer, current_source_dir, the running flag or
\* any session, so the sessions that deliver events are the same.
C29_OtherChoiceChangesNothing ==
    /\ [](\A k \in KeyThreads : OtherChoice(k) => pc[k] \in {"menu_finally", "k_idle"})
    /\ [][\A k \in KeyThreads :
        /\ (pc[k] = "menu_choice" /\ pc'[k] # "menu_choice" /\ OtherChoice(k)') =>
                /\ pc'[k] = "menu_finally"
                /\ UNCHANGED <<SessionState, menu_active>>
        /\ (OtherChoice(k) /\ pc[k] = "menu_finally" /\ pc'[k] # pc[k]) =>
                /\ pc'[k] = "k_idle"
                /\ ~menu_active'
                /\ UNCHANGED SessionState
                /\ \A d \in Dirs : Watchers(d)' = Watchers(d)]_vars

\* the menu was answered with "3" while a session was delivering events; the
\* menu has closed and the session is still in use
C29_Witness ==
    /\ pc["k1"] = "k_idle" /\ choice["k1"] = <<"3">>
    /\ ~menu_active
    /\ pc["main"] = "m_loop" /\ running
    /\ SessionInUse /\ current_source_dir \in obsWatch[observer]

(***************************************************************************)
(* Properties of the destination of a copy                                 *)
(***************************************************************************)
\* the copy of thread t has finished on a source that has not changed since
\* the copy began
CopiedUnchanged(t) == hpc[t] = "logok" /\ total_size[t] = srcSize[hpath[t]]

\* C30: a copy writes to destination_dir joined with the last component of
\* the source path and to no other file, and says so in its record; an
\* existing destination is truncated without error, and the copy of an
\* unchanged source leaves the destination with the content of the source:
\* the content it had when the same source was copied before.
C30_CopyIdempotent ==
    /\ [](\A t \in HThreads :
            /\ pending[t] # "FileExistsError"
            /\ \A i \in 1..Len(hlog[t]) :
                    hlog[t][i].kind = "success" =>
                        /\ hlog[t][i].src = hpath[t]
                        /\ hlog[t][i].dst = <<"destination_dir", hpath[t][Len(hpath[t])]>>
            /\ CopiedUnchanged(t) =>
                    /\ dstSize[destination_path(hpath[t])] = srcSize[hpath[t]]
                    /\ dstMeta[destination_path(hpath[t])]
                    /\ replaced[t] = srcSize[hpath[t]] =>
                            dstSize[destination_path(hpath[t])] = replaced[t])
    /\ [][\A d \in Destinations :
            (dstSize'[d] # dstSize[d] \/ dstMeta'[d] # dstMeta[d]) =>
                \E t \in HThreads :
                    /\ hpc[t] \in CopyPcs
                    /\ d = <<"destination_dir", hpath[t][Len(hpath[t])]>>
                    /\ hpc[t] = "open" => dstSize'[d] = 0]_vars

\* a.png, already at the destination in its current size, was processed
\* again: the destination was truncated and holds the same content again
C30_Witness ==
    \E t \in HThreads :
        /\ CopiedUnchanged(t) /\ hpath[t] = APng
        /\ replaced[t] = srcSize[APng] /\ srcSize[APng] > chunk_size
        /\ dstSize[destination_path(APng)] = srcSize[APng]
        /\ dstMeta[destination_path(APng)]

====
